---- MODULE Spec2Model ----
(***************************************************************************)
(* Model of run_simulation.py: the quarter-car simulator with its          *)
(* frequency-selective skyhook/groundhook controller, the actuator delay   *)
(* line, the soft saturation, the jerk metric and the main loop over the   *)
(* road profiles.                                                          *)
(*                                                                         *)
(* Numbers.  Python floats are binary floating-point numbers: every        *)
(* arithmetic operation returns the representable number nearest to the    *)
(* exact result (ties to even).  The model keeps that semantics with a     *)
(* significand of Prec bits instead of 53: a number is a record            *)
(* [m |-> significand, e |-> exponent] of value m * 2^e, with              *)
(* 2^(Prec-1) <= |m| < 2^Prec, or m = 0.  The exponent is unbounded (the   *)
(* runs explored stay far from overflow and underflow) and the two zeros   *)
(* of IEEE-754, which compare equal, are one value.                        *)
(***************************************************************************)
EXTENDS Integers, Sequences, FiniteSets

\* ------------------------------------------------------------------------
\* Bounds of the model
\* ------------------------------------------------------------------------

\* bits of significand of the modelled float
Prec == 16

\* longest road profile of a single run
MaxN == 6

\* number of profiles the main loop runs in the multi-run specification
NumProfiles == 2

\* longest road profile in the multi-run specification
MaxLenMain == 3

\* longest acceleration sequence handed to compute_metrics on its own
MaxAcc == 4

\* soft_clip on its own: inputs at mid + span * k/4 for |k| <= ClipGrid
ClipGrid == 16

\* ------------------------------------------------------------------------
\* Floating-point arithmetic, round to nearest, ties to even
\* ------------------------------------------------------------------------

\* 2^n, 0 <= n <= 30
Pow2(n) == 2 ^ n

\* the number of bits of a >= 0
RECURSIVE BitLen(_)
BitLen(a) ==
    IF a >= 65536 THEN 16 + BitLen(a \div 65536)
    ELSE IF a >= 256 THEN 8 + BitLen(a \div 256)
    ELSE IF a >= 16 THEN 4 + BitLen(a \div 16)
    ELSE IF a > 0 THEN 1 + BitLen(a \div 2)
    ELSE 0

Abs(n) == IF n < 0 THEN -n ELSE n

Zero == [m |-> 0, e |-> 0]

\* TLC evaluates an operand expression anew at each of its occurrences in an
\* operator's body, and a bound variable once: an operation whose operands
\* occur several times, OpOf, is applied to its operands bound in a set.

\* quotient q and remainder r of a division by 2 * half, rounded to nearest,
\* ties to even; sticky says that the exact value lies strictly above
RoundUp(q, r, half, sticky) ==
    IF r > half \/ (r = half /\ (sticky \/ q % 2 = 1)) THEN q + 1 ELSE q

\* a \div 2^s rounded to nearest, ties to even; sticky says that the exact
\* value lies strictly above a (by less than one unit of a)
RoundShift(a, s, sticky) ==
    IF s = 0 THEN a
    ELSE RoundUp(a \div Pow2(s), a % Pow2(s), Pow2(s - 1), sticky)

\* the float of significand q, of at most Prec bits or 2^Prec, and exponent e
Carry(sign, q, e) ==
    IF q = Pow2(Prec)
    THEN [m |-> sign * Pow2(Prec - 1), e |-> e + 1]
    ELSE [m |-> sign * q, e |-> e]

\* Norm for a > 0 of bl bits
NormBits(sign, a, e, sticky, bl) ==
    IF bl <= Prec
    THEN [m |-> sign * a * Pow2(Prec - bl), e |-> e - (Prec - bl)]
    ELSE Carry(sign, RoundShift(a, bl - Prec, sticky), e + bl - Prec)

\* the float nearest to sign * (a [+ a fraction if sticky]) * 2^e, a >= 0
Norm(sign, a, e, sticky) ==
    IF a = 0 THEN Zero ELSE NormBits(sign, a, e, sticky, BitLen(a))

Sign(n) == IF n < 0 THEN -1 ELSE 1

\* an integer literal, e.g. 290.0
FromInt(n) == Norm(Sign(n), Abs(n), 0, FALSE)

NegOf(x) == [m |-> -x.m, e |-> x.e]

fneg(x) == CHOOSE r \in {NegOf(v) : v \in {x}} : TRUE

AbsOf(x) == [m |-> Abs(x.m), e |-> x.e]

fabs(x) == CHOOSE r \in {AbsOf(v) : v \in {x}} : TRUE

\* the product of the significands is formed in two parts, its low nine
\* bits being the sticky bit
MulOf(x, y) ==
    IF x.m = 0 \/ y.m = 0 THEN Zero
    ELSE LET a == Abs(x.m)
             b == Abs(y.m)
             lowPart == a * (b % 512)
             top == a * (b \div 512) + lowPart \div 512
         IN  Norm(Sign(x.m) * Sign(y.m), top, x.e + y.e + 9, lowPart % 512 # 0)

fmul(x, y) == CHOOSE r \in {MulOf(p[1], p[2]) : p \in {<<x, y>>}} : TRUE

\* hi has the larger exponent; three guard bits and a sticky bit
AddOrdered(hi, lo) ==
    LET d == hi.e - lo.e
        A == Abs(hi.m) * 8
    IN  IF d >= Prec + 3 THEN hi
        ELSE IF d <= 3
        THEN LET sum == hi.m * 8 + lo.m * Pow2(3 - d)
             IN  Norm(Sign(sum), Abs(sum), hi.e - 3, FALSE)
        ELSE LET Bq == Abs(lo.m) \div Pow2(d - 3)
                 st == Abs(lo.m) % Pow2(d - 3) # 0
             IN  IF Sign(hi.m) = Sign(lo.m)
                 THEN Norm(Sign(hi.m), A + Bq, hi.e - 3, st)
                 ELSE IF st
                      THEN Norm(Sign(hi.m), A - Bq - 1, hi.e - 3, TRUE)
                      ELSE Norm(Sign(hi.m), A - Bq, hi.e - 3, FALSE)

AddOf(x, y) ==
    IF x.m = 0 THEN y
    ELSE IF y.m = 0 THEN x
    ELSE IF x.e >= y.e THEN AddOrdered(x, y) ELSE AddOrdered(y, x)

fadd(x, y) == CHOOSE r \in {AddOf(p[1], p[2]) : p \in {<<x, y>>}} : TRUE

fsub(x, y) == fadd(x, fneg(y))

\* x / y for y # 0: 27 quotient bits by three 9-bit long-division stages,
\* the remainder is the sticky bit
DivOf(x, y) ==
    IF x.m = 0 THEN Zero
    ELSE LET a == Abs(x.m)
             b == Abs(y.m)
             q1 == (a * 512) \div b
             r1 == (a * 512) % b
             q2 == (r1 * 512) \div b
             r2 == (r1 * 512) % b
             q3 == (r2 * 512) \div b
             r3 == (r2 * 512) % b
         IN  Norm(Sign(x.m) * Sign(y.m), (q1 * 512 + q2) * 512 + q3,
                  x.e - y.e - 27, r3 # 0)

fdiv(x, y) == CHOOSE r \in {DivOf(p[1], p[2]) : p \in {<<x, y>>}} : TRUE

\* a decimal literal n/d, e.g. 0.005 = 5/1000: the float nearest to it
FromRatio(n, d) == fdiv(FromInt(n), FromInt(d))

\* x < y, x > 0
FLess(x, y) == fsub(x, y).m < 0

FLeq(x, y) == fsub(x, y).m <= 0

FPos(x) == x.m > 0

\* Square root by the digit recurrence: the radicand's bit pairs from the top
\* (pair k of M is (M \div 4^k) % 4), then `extra` pairs of zeros; the result
\* is <<floor of the root, remainder>>.
RECURSIVE SqrtDigits(_, _, _, _, _)
SqrtDigits(M, k, extra, rem, root) ==
    IF k < 0 /\ extra = 0 THEN <<root, rem>>
    ELSE LET bb == IF k >= 0 THEN (M \div Pow2(2 * k)) % 4 ELSE 0
             r2 == rem * 4 + bb
             trial == 4 * root + 1
         IN  IF r2 >= trial
             THEN SqrtDigits(M, IF k >= 0 THEN k - 1 ELSE k,
                             IF k >= 0 THEN extra ELSE extra - 1,
                             r2 - trial, 2 * root + 1)
             ELSE SqrtDigits(M, IF k >= 0 THEN k - 1 ELSE k,
                             IF k >= 0 THEN extra ELSE extra - 1,
                             r2, 2 * root)

\* np.sqrt(x), x >= 0: twelve extra pairs give the root at least Prec + 2 bits
SqrtOf(x) ==
    IF x.m = 0 THEN Zero
    ELSE LET odd == x.e % 2 = 1
             M == IF odd THEN 2 * x.m ELSE x.m
             E == IF odd THEN x.e - 1 ELSE x.e
             res == SqrtDigits(M, (BitLen(M) + 1) \div 2 - 1, 12, 0, 0)
         IN  Norm(1, res[1], E \div 2 - 12, res[2] # 0)

fsqrt(x) == CHOOSE r \in {SqrtOf(v) : v \in {x}} : TRUE

\* ------------------------------------------------------------------------
\* np.tanh
\* ------------------------------------------------------------------------

\* tanh(k/16) * 2^20 to the nearest integer, k = 0..128
TanhTable == <<
     0, 65451, 130394, 194336, 256816, 317414, 375765, 431562,
     484565, 534595, 581540, 625343, 666002, 703560, 738099, 769730,
     798589, 824830, 848614, 870110, 889490, 906920, 922565, 936581,
     949117, 960312, 970296, 979190, 987104, 994139, 1000389, 1005936,
     1010856, 1015218, 1019082, 1022505, 1025535, 1028216, 1030588, 1032685,
     1034540, 1036180, 1037629, 1038909, 1040040, 1041040, 1041922, 1042702,
     1043391, 1043999, 1044535, 1045009, 1045428, 1045797, 1046123, 1046411,
     1046665, 1046890, 1047088, 1047262, 1047417, 1047553, 1047673, 1047779,
     1047873, 1047955, 1048028, 1048093, 1048149, 1048200, 1048244, 1048283,
     1048317, 1048348, 1048374, 1048398, 1048419, 1048437, 1048454, 1048468,
     1048481, 1048492, 1048502, 1048511, 1048518, 1048525, 1048531, 1048536,
     1048541, 1048545, 1048549, 1048552, 1048555, 1048557, 1048559, 1048561,
     1048563, 1048565, 1048566, 1048567, 1048568, 1048569, 1048570, 1048571,
     1048571, 1048572, 1048572, 1048573, 1048573, 1048573, 1048574, 1048574,
     1048574, 1048574, 1048575, 1048575, 1048575, 1048575, 1048575, 1048575,
     1048575, 1048575, 1048576, 1048576, 1048576, 1048576, 1048576, 1048576,
     1048576
>>

TanhFlat == FromInt(8)

\* |t| in units of 2^-14, rounded down, for |t| < 8
TanhUnits(t) ==
    IF t.e + 14 >= 0 THEN Abs(t.m) * Pow2(t.e + 14)
    ELSE Abs(t.m) \div Pow2(-(t.e + 14))

\* np.tanh: the float nearest to the piecewise-linear interpolant of tanh on the grid
\* k/16.  From |t| = 8 on, 1 - tanh|t| < 2^-22 is below half a unit in the
\* last place of 1 and the result is exactly +-1, as it is for np.tanh from
\* |t| = 19.07 on with 53 bits.
TanhOf(t) ==
    IF t.m = 0 THEN Zero
    ELSE IF ~FLess(fabs(t), TanhFlat) THEN [m |-> Sign(t.m) * Pow2(Prec - 1), e |-> 1 - Prec]
    ELSE LET u == TanhUnits(t)
             k == u \div 1024
             f == u % 1024
             v == TanhTable[k + 1] * (1024 - f) + TanhTable[k + 2] * f
         IN  Norm(Sign(t.m), v, -30, FALSE)

tanh(t) == CHOOSE r \in {TanhOf(v) : v \in {t}} : TRUE

\* ------------------------------------------------------------------------
\* System parameters and controller gains
\* ------------------------------------------------------------------------

MS == FromInt(290)

MU == FromInt(59)

KS == FromInt(16000)

KT == FromInt(190000)

C_MIN == FromInt(800)

C_MAX == FromInt(3500)

DT == FromRatio(5, 1000)

DELAY_STEPS == 4

SKYHOOK_GAIN_LF == FromInt(3600)

SKYHOOK_GAIN_HF == FromInt(4000)

GROUND_GAIN == FromInt(250)

ACC_GAIN == FromInt(120)

\* the literal 0.5 of soft_clip and of the trapezoidal rule
Half == FromRatio(1, 2)

\* the smoothing coefficients 0.05/0.95 and 0.15/0.85 of the two filters
LfBodyNew == FromRatio(5, 100)

LfBodyOld == FromRatio(95, 100)

LfWheelNew == FromRatio(15, 100)

LfWheelOld == FromRatio(85, 100)

\* ------------------------------------------------------------------------
\* Utilities
\* ------------------------------------------------------------------------

\* no saturation
Unclipped(x, xmin, xmax) == x

ClipOf(x, mid, span) == fadd(mid, fmul(span, tanh(fdiv(fsub(x, mid), span))))

\* the return expression of soft_clip
ClipAround(x, mid, span) ==
    CHOOSE r \in {ClipOf(p[1], p[2], p[3]) : p \in {<<x, mid, span>>}} : TRUE

\* soft_clip with the full span for the half-span
soft_clip_full_span(x, xmin, xmax) ==
    ClipAround(x, fmul(Half, fadd(xmin, xmax)), fsub(xmax, xmin))

soft_clip(x, xmin, xmax) ==
    ClipAround(x, fmul(Half, fadd(xmin, xmax)), fmul(Half, fsub(xmax, xmin)))

Last(s) == s[Len(s)]

\* np.zeros(n)
Zeros(n) == [k \in 1..n |-> Zero]

\* c_buffer[0]: the oldest element read and left in the list
PeekFirst(buf) == <<Head(buf), buf>>

\* list.pop(): the newest element instead of the oldest
PopNewest(buf) == <<buf[Len(buf)], SubSeq(buf, 1, Len(buf) - 1)>>

\* list.pop(0): the element removed and the list left
PopFirst(buf) == <<Head(buf), Tail(buf)>>

\* a run that starts displaced
Displaced == FromRatio(1, 100)

\* z_s = v_s = z_u = v_u = 0.0
AtRest == Zero

\* range(N - 1)
LoopBoundShort(n) == n - 1

\* range(N): the loop runs while i < N
LoopBound(n) == n

\* road[i + 1], the last sample held
RoadSampleAhead(rd, k) == IF k + 2 <= Len(rd) THEN rd[k + 2] ELSE rd[Len(rd)]

\* road[i], i counted from 0
RoadSample(rd, k) == rd[k + 1]

SaturateOf(c) == [raw |-> c, sat |-> soft_clip(c, C_MIN, C_MAX)]

\* c_target before and after the saturation
Saturate(c) == CHOOSE r \in {SaturateOf(v) : v \in {c}} : TRUE

\* The controller of one step: from the velocities before this step's
\* integration, the filter states just updated and this step's body
\* acceleration to the saturated command c_target.
ControlCommand(vs, vu, vslf, vulf, as) ==
    LET v_s_hf == fsub(vs, vslf)
        rel_vel == fsub(vs, vu)
        c0 == C_MIN
        c1 == IF FPos(fmul(vslf, rel_vel))
              THEN fadd(c0, fmul(SKYHOOK_GAIN_LF, fabs(vslf)))
              ELSE c0
        c2 == fadd(c1, fmul(SKYHOOK_GAIN_HF, fabs(v_s_hf)))
        c3 == fadd(c2, fmul(GROUND_GAIN, fabs(vulf)))
        c4 == fadd(c3, fmul(ACC_GAIN, fabs(as)))
    IN  Saturate(c4)

RECURSIVE SumUpTo(_, _)
SumUpTo(x, n) == IF n = 0 THEN Zero ELSE fadd(SumUpTo(x, n - 1), x[n])

MeanOf(x) == fdiv(SumUpTo(x, Len(x)), FromInt(Len(x)))

\* np.mean(x), x not empty: the samples added in order (numpy adds fewer than
\* eight samples in order, longer arrays pairwise) and divided by their number
Mean(x) == CHOOSE r \in {MeanOf(v) : v \in {x}} : TRUE

RmsOf(x) == fsqrt(Mean([k \in 1..Len(x) |-> fmul(x[k], x[k])]))

\* rms(x) = np.sqrt(np.mean(x ** 2))
rms(x) == CHOOSE r \in {RmsOf(v) : v \in {x}} : TRUE

\* the zero put in front: a backward difference
JerkBackward(acc) ==
    [k \in 1..Len(acc) |->
        IF k > 1 THEN fdiv(fsub(acc[k], acc[k - 1]), DT) ELSE Zero]

\* jerk = np.append(np.diff(acc_s) / DT, 0.0)
Jerk(acc) ==
    [k \in 1..Len(acc) |->
        IF k < Len(acc) THEN fdiv(fsub(acc[k + 1], acc[k]), DT) ELSE Zero]

MaxOf(x, y) == IF FLess(x, y) THEN y ELSE x

FMax(x, y) == CHOOSE r \in {MaxOf(p[1], p[2]) : p \in {<<x, y>>}} : TRUE

RECURSIVE MaxAbsUpTo(_, _)
MaxAbsUpTo(x, n) ==
    IF n = 1 THEN fabs(x[1]) ELSE FMax(MaxAbsUpTo(x, n - 1), fabs(x[n]))

MaxAbsOf(x) == MaxAbsUpTo(x, Len(x))

\* np.max(np.abs(x)), x not empty
MaxAbs(x) == CHOOSE r \in {MaxAbsOf(v) : v \in {x}} : TRUE

\* compute_metrics(zs, acc_s) for sequences that are not empty; the jerk
\* sequence is kept beside the four values returned
compute_metrics(zsq, accq) ==
    LET zs_rel == [k \in 1..Len(zsq) |-> fsub(zsq[k], zsq[1])]
        rms_zs == rms(zs_rel)
        max_zs == MaxAbs(zs_rel)
        jk == Jerk(accq)
        rms_jerk == rms(jk)
        jerk_max == MaxAbs(jk)
        comfort == fadd(fadd(fadd(fmul(Half, rms_zs), max_zs),
                             fmul(Half, rms_jerk)), jerk_max)
    IN  [rms_zs |-> rms_zs, max_zs |-> max_zs, rms_jerk |-> rms_jerk,
         comfort |-> comfort, jerk |-> jk]

\* ------------------------------------------------------------------------
\* State
\* ------------------------------------------------------------------------

VARIABLES
    pc,          \* "main", "loop", "metrics", "done" or "crashed"
    df,          \* the road profiles read from the file, one per column
    profile,     \* the main loop's profile number, from 1
    road,        \* the argument of simulate_quarter_car
    i,           \* the loop index of simulate_quarter_car
    z_s, v_s, z_u, v_u,
    zs_hist, acc_s_hist,
    v_s_lf, v_u_lf,
    c_buffer,
    prev_a_s, prev_a_u,
    zs, acc_s,   \* the two sequences simulate_quarter_car returned to main
    results,     \* the rows appended by the main loop
    \* instrumentation, read by no action
    cmd_hist,    \* the unsaturated and saturated command computed at each step
    act_hist,    \* the coefficient applied at each step
    c_origin,    \* for each delay-line entry, the step that enqueued it
    act_origin,  \* for each step, the step that enqueued the coefficient applied
    write_step,  \* for each output index, the steps that wrote it
    jerk,        \* the jerk sequence of the last compute_metrics call
    runs,        \* road and outputs of every completed simulate_quarter_car call
    \* soft_clip called on its own
    clip         \* its arguments (two inputs, the bounds) and its two results

simVars == <<road, i, z_s, v_s, z_u, v_u, zs_hist, acc_s_hist, v_s_lf, v_u_lf,
             c_buffer, prev_a_s, prev_a_u>>

mainVars == <<df, profile, zs, acc_s, results>>

obsVars == <<cmd_hist, act_hist, c_origin, act_origin, write_step, jerk, runs>>

vars == <<pc, simVars, mainVars, obsVars, clip>>

\* ------------------------------------------------------------------------
\* Inputs
\* ------------------------------------------------------------------------

Bump == FromInt(1)

\* road elevations of a single run: flat, a bump, a pothole
RoadVals == {Zero, Bump, fneg(Bump)}

\* road elevations of the multi-run specification
RoadValsMain == {Zero, Bump}

SeqsOfLen(S, n) == [1..n -> S]

\* ------------------------------------------------------------------------
\* Actions
\* ------------------------------------------------------------------------

\* nothing has run yet
Idle ==
    /\ profile = 1
    /\ results = <<>>
    /\ road = <<>>
    /\ i = 0
    /\ z_s = Zero /\ v_s = Zero /\ z_u = Zero /\ v_u = Zero
    /\ zs_hist = <<>> /\ acc_s_hist = <<>>
    /\ v_s_lf = Zero /\ v_u_lf = Zero
    /\ c_buffer = <<>>
    /\ prev_a_s = Zero /\ prev_a_u = Zero
    /\ cmd_hist = <<>> /\ act_hist = <<>>
    /\ c_origin = <<>> /\ act_origin = <<>>
    /\ write_step = <<>>
    /\ jerk = <<>>
    /\ runs = <<>>

\* the state before main's first call
Boot(frames) ==
    /\ df \in frames
    /\ pc = "main"
    /\ zs = <<>> /\ acc_s = <<>>
    /\ clip = <<>>
    /\ Idle

\* one profile, every road of up to MaxN samples
Init == Boot(UNION {{<<rd>> : rd \in SeqsOfLen(RoadVals, n)} : n \in 0..MaxN})

\* NumProfiles profiles of one length, up to MaxLenMain samples
InitMain ==
    Boot(UNION {[1..NumProfiles -> SeqsOfLen(RoadValsMain, n)] : n \in 0..MaxLenMain})

\* a delay line made once and kept from call to call
StaleDelayLine ==
    IF c_buffer = <<>> THEN [k \in 1..DELAY_STEPS |-> C_MIN] ELSE c_buffer

\* c_buffer = [C_MIN] * DELAY_STEPS
NewDelayLine == [k \in 1..DELAY_STEPS |-> C_MIN]

\* main reads the next profile and calls simulate_quarter_car, which sets
\* up its state
Call ==
    /\ pc = "main"
    /\ profile <= Len(df)
    /\ road' = df[profile]
    /\ i' = 0
    /\ z_s' = AtRest /\ v_s' = AtRest /\ z_u' = AtRest /\ v_u' = AtRest
    /\ zs_hist' = Zeros(Len(road'))
    /\ acc_s_hist' = Zeros(Len(road'))
    /\ v_s_lf' = Zero /\ v_u_lf' = Zero
    /\ c_buffer' = NewDelayLine
    /\ prev_a_s' = Zero /\ prev_a_u' = Zero
    /\ pc' = "loop"
    /\ cmd_hist' = <<>> /\ act_hist' = <<>> /\ act_origin' = <<>>
    /\ c_origin' = [k \in 1..Len(c_buffer') |-> k - 1 - Len(c_buffer')]
    /\ write_step' = [k \in 1..Len(road') |-> <<>>]
    /\ UNCHANGED <<mainVars, jerk, runs, clip>>

\* One iteration of the loop.  a_s and a_u are assigned to prev_a_s and
\* prev_a_u at the end of the iteration, so prev_a_s' and prev_a_u' stand for
\* them.
Step ==
    /\ pc = "loop"
    /\ i < LoopBound(Len(road))
    /\ LET r == RoadSample(road, i)
           popped == PopFirst(c_buffer)
           c_act == popped[1]
           f_spring == fmul(KS, fsub(z_s, z_u))
           f_damper == fmul(c_act, fsub(v_s, v_u))
           f_tire == fmul(KT, fsub(z_u, r))
       IN  /\ prev_a_s' = fdiv(fneg(fadd(f_spring, f_damper)), MS)
           /\ prev_a_u' = fdiv(fsub(fadd(f_spring, f_damper), f_tire), MU)
           /\ act_hist' = Append(act_hist, c_act)
           /\ zs_hist' = [zs_hist EXCEPT ![i + 1] = z_s]
           /\ acc_s_hist' = [acc_s_hist EXCEPT ![i + 1] = prev_a_s']
           /\ v_s_lf' = fadd(fmul(LfBodyNew, v_s), fmul(LfBodyOld, v_s_lf))
           /\ v_u_lf' = fadd(fmul(LfWheelNew, v_u), fmul(LfWheelOld, v_u_lf))
           /\ cmd_hist' = Append(cmd_hist,
                                 ControlCommand(v_s, v_u, v_s_lf', v_u_lf', prev_a_s'))
           /\ c_buffer' = Append(popped[2], Last(cmd_hist').sat)
           /\ v_s' = fadd(v_s, fmul(fmul(Half, fadd(prev_a_s', prev_a_s)), DT))
           /\ v_u' = fadd(v_u, fmul(fmul(Half, fadd(prev_a_u', prev_a_u)), DT))
           /\ z_s' = fadd(z_s, fmul(v_s', DT))
           /\ z_u' = fadd(z_u, fmul(v_u', DT))
    /\ i' = i + 1
    /\ act_origin' = Append(act_origin, PopFirst(c_origin)[1])
    /\ c_origin' = Append(PopFirst(c_origin)[2], i)
    /\ write_step' = [write_step EXCEPT ![i + 1] = Append(@, i)]
    /\ UNCHANGED <<pc, road, mainVars, jerk, runs, clip>>

\* the loop is over: return zs_hist, acc_s_hist
Return ==
    /\ pc = "loop"
    /\ ~(i < LoopBound(Len(road)))
    /\ zs' = zs_hist
    /\ acc_s' = acc_s_hist
    /\ pc' = "metrics"
    /\ runs' = Append(runs, [road |-> road, zs |-> zs_hist, acc_s |-> acc_s_hist])
    /\ UNCHANGED <<simVars, df, profile, results, cmd_hist, act_hist, c_origin,
                   act_origin, write_step, jerk, clip>>

\* compute_metrics(zs, acc_s) and results.append
Metrics ==
    /\ pc = "metrics"
    /\ Len(zs) > 0
    /\ LET m == compute_metrics(zs, acc_s)
       IN  /\ jerk' = m.jerk
           /\ results' = Append(results,
                   [name |-> profile, rms_zs |-> m.rms_zs, max_zs |-> m.max_zs,
                    rms_jerk |-> m.rms_jerk, comfort_score |-> m.comfort])
    /\ profile' = profile + 1
    /\ pc' = "main"
    /\ UNCHANGED <<simVars, df, zs, acc_s, cmd_hist, act_hist, c_origin, act_origin,
                   write_step, runs, clip>>

\* compute_metrics on empty sequences: zs[0] raises IndexError, which nothing
\* catches
MetricsRaise ==
    /\ pc = "metrics"
    /\ Len(zs) = 0
    /\ pc' = "crashed"
    /\ UNCHANGED <<simVars, mainVars, obsVars, clip>>

\* every profile has run: the report is written
Finish ==
    /\ pc = "main"
    /\ profile > Len(df)
    /\ pc' = "done"
    /\ UNCHANGED <<simVars, mainVars, obsVars, clip>>

Next == Call \/ Step \/ Return \/ Metrics \/ MetricsRaise \/ Finish

Spec == Init /\ [][Next]_vars

SpecMain == InitMain /\ [][Next]_vars

\* ------------------------------------------------------------------------
\* compute_metrics on its own
\* ------------------------------------------------------------------------

AccVals == {FromInt(0), FromInt(1), FromInt(2), FromInt(3)}

\* compute_metrics is about to be called with any acceleration sequence of
\* up to MaxAcc samples and a displacement sequence of the same length
InitMetrics ==
    /\ df = <<>>
    /\ pc = "metrics"
    /\ acc_s \in UNION {SeqsOfLen(AccVals, n) : n \in 0..MaxAcc}
    /\ zs \in {Zeros(Len(acc_s)), acc_s}
    /\ clip = <<>>
    /\ Idle

NextMetrics == Metrics \/ MetricsRaise

SpecMetrics == InitMetrics /\ [][NextMetrics]_vars

\* ------------------------------------------------------------------------
\* soft_clip on its own
\* ------------------------------------------------------------------------

\* bounds lo < hi whose midpoint and half-span are floats
ClipBounds ==
    {<<C_MIN, C_MAX>>, <<FromInt(-1), FromInt(1)>>, <<FromInt(0), FromInt(1)>>}

\* Where the inputs lie, in half-spans from the midpoint: a grid of quarters
\* up to ClipGrid/4, a cluster of close neighbours, and far inputs.  Between
\* the two, 1 - tanh is below the rounding unit of Prec bits but not of 53,
\* so only outside that band does the model round as the program does.
ClipOffsets ==
    {FromRatio(k, 4) : k \in -ClipGrid..ClipGrid}
        \cup {FromRatio(3072 + k, 1024) : k \in 1..4}
        \cup {FromInt(-1048576), FromInt(-32), FromInt(32), FromInt(1048576)}

ClipInput(b, u) ==
    fadd(fmul(Half, fadd(b[1], b[2])), fmul(fmul(Half, fsub(b[2], b[1])), u))

InitClip ==
    /\ df = <<>>
    /\ pc = "clip"
    /\ zs = <<>> /\ acc_s = <<>>
    /\ Idle
    /\ \E b \in ClipBounds : \E u1, u2 \in ClipOffsets :
          /\ FLeq(u1, u2)
          /\ clip = [xmin |-> b[1], xmax |-> b[2],
                     x1 |-> ClipInput(b, u1), x2 |-> ClipInput(b, u2)]

\* soft_clip applied to the two inputs
Clip ==
    /\ pc = "clip"
    /\ clip' = [xmin |-> clip.xmin, xmax |-> clip.xmax, x1 |-> clip.x1, x2 |-> clip.x2,
                y1 |-> soft_clip(clip.x1, clip.xmin, clip.xmax),
                y2 |-> soft_clip(clip.x2, clip.xmin, clip.xmax)]
    /\ pc' = "clipped"
    /\ UNCHANGED <<simVars, mainVars, obsVars>>

NextClip == Clip

SpecClip == InitClip /\ [][NextClip]_vars

\* ------------------------------------------------------------------------
\* Properties
\* ------------------------------------------------------------------------

AllZero(x) == \A k \in DOMAIN x : x[k] = Zero

InRange(x, lo, hi) == FLeq(lo, x) /\ FLeq(x, hi)

Returned == pc = "metrics"

\* C1: the coefficient applied at step k is the command enqueued at step
\* k - DELAY_STEPS, or C_MIN in the first DELAY_STEPS steps; it is never the
\* entry enqueued at step k itself.
C1_DelayLineCausality ==
    /\ Len(act_hist) = i
    /\ Len(cmd_hist) = i
    /\ Len(act_origin) = i
    /\ \A k \in 0..(i - 1) :
          /\ act_hist[k + 1] = IF k >= DELAY_STEPS
                               THEN cmd_hist[k + 1 - DELAY_STEPS].sat
                               ELSE C_MIN
          /\ act_origin[k + 1] = k - DELAY_STEPS
          /\ act_origin[k + 1] # k

\* commands of steps 0 and 1 have been applied, and they differ from C_MIN
\* and from each other
C1_Witness ==
    /\ i >= DELAY_STEPS + 2
    /\ act_hist[DELAY_STEPS + 1] # C_MIN
    /\ act_hist[DELAY_STEPS + 2] # act_hist[DELAY_STEPS + 1]
    /\ cmd_hist[DELAY_STEPS + 1].sat # act_hist[DELAY_STEPS + 1]

\* C2: between the steps of a run the delay line holds exactly DELAY_STEPS
\* entries, the ones enqueued by the last DELAY_STEPS steps in order (the
\* initial C_MIN entries stand for steps -DELAY_STEPS..-1): each step removed
\* the oldest and appended its command.
C2_DelayLineLength ==
    pc \in {"loop", "metrics"} =>
        /\ Len(c_buffer) = DELAY_STEPS
        /\ Len(c_origin) = DELAY_STEPS
        /\ \A k \in 1..DELAY_STEPS :
              LET step == i - DELAY_STEPS + k - 1
              IN  /\ c_origin[k] = step
                  /\ c_buffer[k] = IF step >= 0 THEN cmd_hist[step + 1].sat ELSE C_MIN

\* every initial entry has left the line
C2_Witness ==
    /\ pc = "loop"
    /\ i > DELAY_STEPS
    /\ c_buffer[1] # C_MIN
    /\ c_buffer[1] # c_buffer[DELAY_STEPS]

\* C3: simulate_quarter_car returns for no empty road.
C3_EmptyRoadRejected == \A k \in DOMAIN runs : Len(runs[k].road) > 0

\* C4: on a road of zeros the state stays at zero after every step and every
\* output entry is zero.
C4_ZeroRoadZeroResponse ==
    (pc \in {"loop", "metrics"} /\ Len(road) >= 1 /\ AllZero(road)) =>
        /\ z_s = Zero /\ v_s = Zero /\ z_u = Zero /\ v_u = Zero
        /\ AllZero(zs_hist) /\ AllZero(acc_s_hist)
        /\ Returned => (zs = zs_hist /\ acc_s = acc_s_hist /\ Len(zs) = Len(road))

\* a flat road has run to the end with commands other than C_MIN applied
C4_Witness ==
    /\ Returned
    /\ Len(road) > DELAY_STEPS /\ AllZero(road)
    /\ act_hist[Len(road)] # C_MIN
    /\ AllZero(zs) /\ Len(zs) = Len(road)

\* C5: the loop runs steps 0..N-1 and no more; step k writes index k of both
\* outputs, once; the call returns after N steps two sequences of length N.
C5_OutputLengths ==
    /\ pc = "loop" =>
          /\ i <= Len(road)
          /\ Len(zs_hist) = Len(road) /\ Len(acc_s_hist) = Len(road)
          /\ \A k \in 1..Len(road) :
                write_step[k] = IF k <= i THEN <<k - 1>> ELSE <<>>
    /\ Returned =>
          /\ i = Len(road)
          /\ Len(zs) = Len(road) /\ Len(acc_s) = Len(road)
          /\ \A k \in 1..Len(road) : write_step[k] = <<k - 1>>

C5_Witness ==
    /\ Returned
    /\ Len(road) > DELAY_STEPS
    /\ Len(zs) = Len(road)
    /\ ~AllZero(acc_s)

\* the state a run starts from
FreshStart ==
    /\ z_s = Zero /\ v_s = Zero /\ z_u = Zero /\ v_u = Zero
    /\ v_s_lf = Zero /\ v_u_lf = Zero
    /\ prev_a_s = Zero /\ prev_a_u = Zero
    /\ c_buffer = [k \in 1..DELAY_STEPS |-> C_MIN]

\* C6: every run starts from rest with a delay line of C_MIN, and any two
\* completed runs of the process on the same road returned the same outputs.
C6_RunsIndependent ==
    /\ (pc = "loop" /\ i = 0) => FreshStart
    /\ \A a, b \in DOMAIN runs :
          runs[a].road = runs[b].road =>
              runs[a].zs = runs[b].zs /\ runs[a].acc_s = runs[b].acc_s

\* a road with a response was run twice
C6_Witness ==
    /\ Len(runs) >= 2
    /\ runs[1].road = runs[2].road
    /\ ~AllZero(runs[2].acc_s)
    /\ ~AllZero(runs[2].zs)

\* C7 as stated: the result is strictly between the bounds, and soft_clip is
\* non-decreasing.
C7_StrictlyInside ==
    pc = "clipped" =>
        /\ FLess(clip.xmin, clip.y1) /\ FLess(clip.y1, clip.xmax)
        /\ FLess(clip.xmin, clip.y2) /\ FLess(clip.y2, clip.xmax)
        /\ FLeq(clip.y1, clip.y2)

\* C7 as amended: for bounds whose midpoint and half-span are floats the
\* result is between the bounds, which it can reach, and soft_clip is
\* non-decreasing.
C7_ClosedAndMonotone ==
    pc = "clipped" =>
        /\ InRange(clip.y1, clip.xmin, clip.xmax)
        /\ InRange(clip.y2, clip.xmin, clip.xmax)
        /\ FLeq(clip.y1, clip.y2)

\* the program's bounds, one result inside and one on the upper bound
C7_Witness ==
    /\ pc = "clipped"
    /\ clip.xmin = C_MIN /\ clip.xmax = C_MAX
    /\ FLess(clip.xmin, clip.y1) /\ FLess(clip.y1, clip.y2)
    /\ clip.y2 = clip.xmax

Ramp == <<FromInt(0), FromInt(1), FromInt(2), FromInt(3)>>

HasMetrics == pc = "main" /\ results # <<>>

\* C8: the jerk sequence is as long as the acceleration sequence, a forward
\* difference over DT with a zero at the end; for the ramp 0, 1, 2, 3 it is
\* 200, 200, 200, 0.
C8_JerkSequence ==
    HasMetrics =>
        /\ Len(jerk) = Len(acc_s)
        /\ \A k \in 1..(Len(acc_s) - 1) :
              jerk[k] = fdiv(fsub(acc_s[k + 1], acc_s[k]), DT)
        /\ jerk[Len(acc_s)] = Zero
        /\ acc_s = Ramp =>
              jerk = <<FromInt(200), FromInt(200), FromInt(200), Zero>>

C8_Witness ==
    /\ HasMetrics
    /\ acc_s = Ramp
    /\ jerk = <<FromInt(200), FromInt(200), FromInt(200), Zero>>

\* C9: every entry of the delay line and every coefficient applied is in
\* [C_MIN, C_MAX], and the sum the controller saturates is at least C_MIN.
C9_CommandsInRange ==
    /\ \A k \in DOMAIN c_buffer : InRange(c_buffer[k], C_MIN, C_MAX)
    /\ \A k \in DOMAIN act_hist : InRange(act_hist[k], C_MIN, C_MAX)
    /\ \A k \in DOMAIN cmd_hist :
          /\ FLeq(C_MIN, cmd_hist[k].raw)
          /\ InRange(cmd_hist[k].sat, C_MIN, C_MAX)

\* a sum above C_MAX was saturated and later applied
C9_Witness ==
    \E k \in DOMAIN cmd_hist :
        /\ FLess(C_MAX, cmd_hist[k].raw)
        /\ k + DELAY_STEPS <= Len(act_hist)
        /\ act_hist[k + DELAY_STEPS] = cmd_hist[k].sat
        /\ FLess(C_MIN, cmd_hist[k].sat)

\* the roads agree on samples 0..k-1
AgreeOn(r1, r2, k) == \A j \in 1..k : r1[j] = r2[j]

\* the sequences agree on indices 0..k, as far as they exist
SamePrefix(x1, x2, k) == \A j \in 1..(k + 1) : j <= Len(x1) => x1[j] = x2[j]

\* C10: runs on roads of one length that agree on samples 0..k-1 return the
\* same acceleration up to index k and the same displacement up to index
\* k + 1; acceleration 0 and displacements 0 and 1 are zero for every road.
C10_OutputsLagRoad ==
    /\ \A a, b \in DOMAIN runs :
          Len(runs[a].road) = Len(runs[b].road) =>
              \A k \in 0..Len(runs[a].road) :
                  AgreeOn(runs[a].road, runs[b].road, k) =>
                      /\ SamePrefix(runs[a].acc_s, runs[b].acc_s, k)
                      /\ SamePrefix(runs[a].zs, runs[b].zs, k + 1)
    /\ \A a \in DOMAIN runs :
          /\ Len(runs[a].road) >= 1 => runs[a].acc_s[1] = Zero /\ runs[a].zs[1] = Zero
          /\ Len(runs[a].road) >= 2 => runs[a].zs[2] = Zero

\* two roads that part at sample 1: the outputs part at acceleration 2, and
\* the last sample changed nothing
C10_Witness ==
    /\ Len(runs) >= 2
    /\ Len(runs[1].road) = 3 /\ Len(runs[2].road) = 3
    /\ runs[1].road[1] = runs[2].road[1]
    /\ runs[1].road[2] # runs[2].road[2]
    /\ runs[1].road[3] # runs[2].road[3]
    /\ runs[1].acc_s[2] = runs[2].acc_s[2]
    /\ runs[1].acc_s[3] # runs[2].acc_s[3]
    /\ runs[1].zs[3] = runs[2].zs[3]

====
